---- MODULE Spec2Model ----
(***************************************************************************)
(* Model of src/src/index.ts: the registry of browser instances and the    *)
(* four tool handlers (browse, interact, extract, close) of the            *)
(* patchright-lite MCP server.                                             *)
(*                                                                         *)
(* Each handler is an async function.  One action models the code that     *)
(* runs synchronously from the handler's entry, or from the resumption     *)
(* after an await, up to the next await or the return.  The Capability     *)
(* Provider (patchright) is a black box: an awaited operation either       *)
(* completes normally or throws.                                           *)
(*                                                                         *)
(* A string is represented by what the handlers do with it: identifiers    *)
(* are numbers (randomUUID never repeats one), page text is its length     *)
(* (substring keeps a prefix), and error messages are their fixed text.    *)
(***************************************************************************)
EXTENDS Integers, Sequences, FiniteSets, Bags, TLC

\* ---------------------------------------------------------------- bounds
\* handler invocations in one run
MaxCalls == 3
\* handler invocations suspended at an await at the same time
MaxInFlight == 2
\* milliseconds the clock advances in one run
MaxClock == 1

\* ------------------------------------------------------ program constants
\* browse: visibleText.substring(0, 1500)
PreviewLimit == 1500
\* extract: extractedContent.substring(0, 2000)
ExtractLimit == 2000
\* extract, html: extractedContent.substring(0, 100)
HtmlLimit == 100
\* extract, screenshot: the length of `Screenshot saved to: ${screenshotPath}`
\* for /tmp/patchright-mcp/screenshot-<uuid>-<13 digits>.png
ScreenshotNoteLen == 106

\* ----------------------------------------------------------------- inputs
\* an identifier string that randomUUID never produced
Bogus == 0
Urls == {"https://example.com"}
Headless == {FALSE}
WaitFors == {1000}
Actions == {"click", "fill", "select"}
ExtractTypes == {"text", "html", "screenshot"}
\* value?: string -- absent, the empty string, a non-empty string
Undefined == "undefined"
Values == {Undefined, "", "v"}
\* selectors are opaque to the handlers; the provider finds "#gone" nowhere
Selectors == {"#a", "#gone"}
\* lengths of the text the provider's evaluate() / content() return
TextLens == {PreviewLimit, PreviewLimit + 1, ExtractLimit, ExtractLimit + 1}
\* lengths of the documents page.content() returns, a 1 MB page among them
HtmlLens == {HtmlLimit - 1, HtmlLimit, HtmlLimit + 1, 1048576}

Min(a, b) == IF a < b THEN a ELSE b
Max(a, b) == IF a > b THEN a ELSE b

VARIABLES
    browserInstances,  \* the registry: browserId -> [browser, pages]
    browsers,          \* the provider's browsers, by handle: [state, closeCalls]
    calls,             \* the bag of suspended handler invocations
    started,           \* number of handler invocations so far
    finished,          \* number of handler invocations that have returned
    uuids,             \* number of identifiers randomUUID has produced
    out,               \* the response this step returned (NoResponse if none)
    returned,          \* the (browserId, pageId) pairs of successful browse calls
    closed,            \* the browserIds a successful close response has named
    now,               \* the clock Date.now() reads
    files              \* the bag of the paths page.screenshot has written a capture to

vars == <<browserInstances, browsers, calls, started, finished, uuids, out, returned,
          closed, now, files>>

\* ------------------------------------------------------------ pure helpers
\* a generator that repeats: every pair of calls yields the ids 1 and 2
randomUUIDRepeat(n) == (n % 2) + 1

\* crypto.randomUUID(): the n identifiers produced so far are 1..n
randomUUID(n) == n + 1

\* String.prototype.substring(start, end) on a string of length len: the
\* length of the result (both indices clamped to 0..len, swapped if needed)
Substring(len, start, end) ==
    LET s == Max(0, Min(start, len))
        e == Max(0, Min(end, len))
    IN  Max(s, e) - Min(s, e)

\* JavaScript !value for value?: string
Falsy(value) == value = Undefined \/ value = ""

\* the ids the caller can name: those a payload has shown it, and a bogus one
\* (any other string: to the handlers it is as unknown as Bogus)
KnownBrowserIds == {Bogus} \cup {returned[k][1] : k \in DOMAIN returned}
KnownPageIds == {Bogus} \cup {returned[k][2] : k \in DOMAIN returned}

\* ------------------------------------------------------------------ records
\* the text of a response payload, by its parts; a part a payload does not
\* have is "" / 0 / FALSE
NoText ==
    [head |-> "", error |-> "", errorId |-> 0, url |-> "", title |-> "",
     body |-> 0, marker |-> FALSE, count |-> 0, browserId |-> 0, pageId |-> 0,
     path |-> <<>>, actionResult |-> ""]

\* the arguments of a tool call; an argument a tool does not take is "" / 0
NoArgs ==
    [url |-> "", headless |-> FALSE, waitFor |-> 0, browserId |-> 0, pageId |-> 0,
     action |-> "", selector |-> "", value |-> "", type |-> ""]

\* a response: the tool and the arguments of the invocation c that returned
\* it, and its text; and, for the properties only: at, the step that threw (a
\* provider operation, "resolve" or "validate"; "" if none did); src, the
\* length of the content before truncation; late, whether the invocation
\* began after a successful close response had named its browserId; invoked,
\* the number of provider operations the invocation called; and the
\* handler's browserId, pageId and browser
Response(c, text, at, src) ==
    [kind |-> c.kind, args |-> c.args, text |-> text, at |-> at,
     src |-> src, late |-> c.late, invoked |-> c.invoked,
     browserId |-> c.browserId, pageId |-> c.pageId, browser |-> c.browser]

NoResponse ==
    [kind |-> "none", args |-> NoArgs, text |-> NoText, at |-> "",
     src |-> 0, late |-> FALSE, invoked |-> 0, browserId |-> 0, pageId |-> 0,
     browser |-> 0]

\* a suspended invocation: kind and args as called; pc names the provider
\* operation it awaits; canResolve tells whether that operation can complete
\* normally, resolved whether the provider has completed it (kept for close
\* only: the other operations change nothing a handler can see, so their
\* completion is one step with the handler's resumption); invoked counts the
\* provider operations it has called and afterRelease tells whether it called
\* the one it awaits on a browser already released; the rest are the
\* handler's locals (browser and page are provider handles)
Call(kind, args) ==
    [kind |-> kind, args |-> args, pc |-> "", canResolve |-> FALSE, resolved |-> FALSE,
     invoked |-> 0, afterRelease |-> FALSE,
     browserId |-> 0, pageId |-> 0, browser |-> 0, page |-> 0,
     title |-> "", text |-> 0, path |-> <<>>, actionResult |-> "", late |-> FALSE]

\* `${error}` of new Error(message)
ErrorText(message) == "Error: " \o message

\* `${error}` of an error the provider threw in operation op: opaque text
ProviderError(op) == "Error: " \o op \o " failed"

\* path.join(TEMP_DIR, `screenshot-${pageId}.png`) and
\* path.join(TEMP_DIR, `screenshot-${pageId}-${Date.now()}.png`)
ScreenshotPath(pageId) == <<pageId>>
StampedScreenshotPath(pageId, stamp) == <<pageId, stamp>>

\* the suspended invocations are a bag: two invocations with the same
\* arguments at the same await are interchangeable
Spawn(c) == calls (+) SetToBag({c})
Retire(c) == calls (-) SetToBag({c})
Continue(c, d) == Retire(c) (+) SetToBag({d})

\* a failure payload for an error thrown by the handler itself
Failure(head, message, id) ==
    [NoText EXCEPT !.head = head, !.error = ErrorText(message), !.errorId = id]

\* a catch that passes the provider's error on without the failure text
ProviderFailureBare(head, op) == [NoText EXCEPT !.error = ProviderError(op)]

\* a failure payload for an error the provider threw in operation op
ProviderFailure(head, op) == [NoText EXCEPT !.head = head, !.error = ProviderError(op)]

Init ==
    /\ browserInstances = <<>>
    /\ browsers = <<>>
    /\ calls = EmptyBag
    /\ started = 0
    /\ finished = 0
    /\ uuids = 0
    /\ out = NoResponse
    /\ returned = <<>>
    /\ closed = {}
    /\ now = 0
    /\ files = EmptyBag

\* ---------------------------------------------------------------- provider
\* the operations that take a selector
SelectorOps == {"click", "fill", "selectOption"}

\* whether operation op, called by invocation c when the provider's browsers
\* are bs, can complete normally: every operation but launch and close needs
\* its browser running, and an operation with a selector an element that
\* matches it.  Any operation may also throw (a timeout, a crash, a closed
\* target).
CanResolve(c, op, bs) ==
    /\ op \notin {"launch", "close"} => bs[c.browser].state = "live"
    /\ op \in SelectorOps => c.args.selector # "#gone"

\* invocation c calls the provider operation op and awaits it
Invoke(c, op) ==
    [c EXCEPT !.pc = op, !.canResolve = CanResolve(c, op, browsers), !.resolved = FALSE,
              !.invoked = c.invoked + 1,
              !.afterRelease = op # "launch" /\ browsers[c.browser].state = "released"]

\* chromium.launch resolved: the provider runs one more browser
Launched == Append(browsers, [state |-> "live", closeCalls |-> 0])

\* page.screenshot({ path }) resolved: a capture is written to path, over
\* whatever an earlier capture wrote there
Captured(path) == files (+) SetToBag({path})

\* the handler returns a response to the caller / the step returns none
Return(c, text, at, src) ==
    /\ out' = Response(c, text, at, src)
    /\ finished' = finished + 1
NoReturn ==
    /\ out' = NoResponse
    /\ UNCHANGED finished

\* a new handler invocation may begin
CanStart == started < MaxCalls /\ BagCardinality(calls) < MaxInFlight

\* invocation c awaits operation op, which completes normally
Resumes(c, kind, op) ==
    /\ BagIn(c, calls)
    /\ c.kind = kind
    /\ c.pc = op
    /\ c.canResolve

\* a provider whose operations never throw: one that cannot complete hangs
ThrowsNever(c, kind) == FALSE

\* invocation c awaits an operation, which throws
Throws(c, kind) ==
    /\ BagIn(c, calls)
    /\ c.kind = kind
    /\ ~c.resolved

\* ------------------------------------------------------------------ browse
\* index.ts 54-72: the ids are generated, chromium.launch is called
BrowseStart(url, headless, waitFor) ==
    /\ CanStart
    /\ started' = started + 1
    /\ LET args == [NoArgs EXCEPT !.url = url, !.headless = headless, !.waitFor = waitFor]
           browserId == randomUUID(uuids)
           pageId == randomUUID(uuids + 1)
       IN  /\ uuids' = uuids + 2
           /\ calls' = Spawn(Invoke([Call("browse", args) EXCEPT
                                    !.browserId = browserId, !.pageId = pageId], "launch"))
    /\ NoReturn
    /\ UNCHANGED <<browserInstances, browsers, returned, closed, now, files>>

\* index.ts 61-75: browser = the launched browser; browser.newContext is called
BrowseAfterLaunch(c) ==
    /\ Resumes(c, "browse", "launch")
    /\ browsers' = Launched
    /\ LET d == [c EXCEPT !.browser = Len(Launched)]
       IN  calls' = Continue(c, [d EXCEPT !.pc = "newContext",
                                   !.canResolve = CanResolve(d, "newContext", Launched),
                                   !.invoked = c.invoked + 1])
    /\ NoReturn
    /\ UNCHANGED <<browserInstances, started, uuids, returned, closed, now, files>>

\* index.ts 75-78: context.newPage is called
BrowseAfterNewContext(c) ==
    /\ Resumes(c, "browse", "newContext")
    /\ calls' = Continue(c, Invoke(c, "newPage"))
    /\ NoReturn
    /\ UNCHANGED <<browserInstances, browsers, started, uuids, returned, closed, now, files>>

\* browserInstances.set(browserId, {browser, pages: new Map([[pageId, page]])})
RegistrySet(browserId, browser, pageId, page) ==
    (browserId :> [browser |-> browser, pages |-> (pageId :> page)]) @@ browserInstances

\* index.ts 78-87: page = the new page; the instance is stored; page.goto is called
BrowseAfterNewPage(c) ==
    /\ Resumes(c, "browse", "newPage")
    /\ LET d == [c EXCEPT !.page = c.browser]
       IN  /\ browserInstances' = RegistrySet(d.browserId, d.browser, d.pageId, d.page)
           /\ calls' = Continue(c, Invoke(d, "goto"))
    /\ NoReturn
    /\ UNCHANGED <<browsers, started, uuids, returned, closed, now, files>>

\* index.ts 87-88: page.waitForTimeout(waitFor) is called
BrowseAfterGoto(c) ==
    /\ Resumes(c, "browse", "goto")
    /\ calls' = Continue(c, Invoke(c, "waitForTimeout"))
    /\ NoReturn
    /\ UNCHANGED <<browserInstances, browsers, started, uuids, returned, closed, now, files>>

\* index.ts 88-91: page.title is called
BrowseAfterWait(c) ==
    /\ Resumes(c, "browse", "waitForTimeout")
    /\ calls' = Continue(c, Invoke(c, "title"))
    /\ NoReturn
    /\ UNCHANGED <<browserInstances, browsers, started, uuids, returned, closed, now, files>>

\* index.ts 91-104: title = the title; page.evaluate is called
BrowseAfterTitle(c) ==
    /\ Resumes(c, "browse", "title")
    /\ calls' = Continue(c, Invoke([c EXCEPT !.title = "Example Domain"], "evaluate"))
    /\ NoReturn
    /\ UNCHANGED <<browserInstances, browsers, started, uuids, returned, closed, now, files>>

\* index.ts 95-108: visibleText = the text evaluate returned; page.screenshot
\* is called
BrowseAfterEvaluate(c, visibleText) ==
    /\ Resumes(c, "browse", "evaluate")
    /\ calls' = Continue(c, Invoke([c EXCEPT !.text = visibleText,
                                              !.path = ScreenshotPath(c.pageId)],
                                    "screenshot"))
    /\ NoReturn
    /\ UNCHANGED <<browserInstances, browsers, started, uuids, returned, closed, now, files>>

\* index.ts 115: the text of browse's success payload
BrowseText(c) ==
    [NoText EXCEPT !.head = "Successfully browsed to: ",
                   !.url = c.args.url,
                   !.title = c.title,
                   !.body = Substring(c.text, 0, PreviewLimit),
                   !.marker = c.text > PreviewLimit,
                   !.browserId = c.browserId,
                   !.pageId = c.pageId,
                   !.path = c.path]

\* index.ts 108-118: the success payload is returned
BrowseAfterScreenshot(c) ==
    /\ Resumes(c, "browse", "screenshot")
    /\ Return(c, BrowseText(c), "", c.text)
    /\ returned' = Append(returned, <<c.browserId, c.pageId>>)
    /\ files' = Captured(c.path)
    /\ calls' = Retire(c)
    /\ UNCHANGED <<browserInstances, browsers, started, uuids, closed, now>>

\* index.ts 119-128: the awaited operation threw; the failure payload is
\* returned.  A launch that throws started no browser.
BrowseCatch(c) ==
    /\ Throws(c, "browse")
    /\ Return(c, ProviderFailure("Failed to browse: ", c.pc), c.pc, 0)
    /\ calls' = Retire(c)
    /\ UNCHANGED <<browserInstances, browsers, started, uuids, returned, closed, now, files>>

\* ---------------------------------------------------------------- registry
\* a lookup that reports a missing page as a missing instance
ResolveErrorSame(browserId, pageId) ==
    IF browserId \notin DOMAIN browserInstances THEN "Browser instance not found: "
    ELSE IF pageId \notin DOMAIN browserInstances[browserId].pages
         THEN "Browser instance not found: "
    ELSE ""

\* index.ts 152-160, 232-240: the message of the error the lookup of
\* (browserId, pageId) throws, "" if both resolve
ResolveError(browserId, pageId) ==
    IF browserId \notin DOMAIN browserInstances THEN "Browser instance not found: "
    ELSE IF pageId \notin DOMAIN browserInstances[browserId].pages THEN "Page not found: "
    ELSE ""

\* the id the message of ResolveError names
ResolveErrorId(browserId, pageId) ==
    IF browserId \notin DOMAIN browserInstances THEN browserId ELSE pageId

\* a delete that removes nothing
RegistryDeleteNothing(browserId) == browserInstances

\* a delete that empties the registry
RegistryDeleteAll(browserId) == [b \in {} |-> browserInstances[b]]

\* browserInstances.delete(browserId)
RegistryDelete(browserId) ==
    [b \in DOMAIN browserInstances \ {browserId} |-> browserInstances[b]]

\* ---------------------------------------------------------------- interact
\* a check that forgets fill
ValueErrorSelectOnly(action, value) ==
    IF action = "select" /\ Falsy(value) THEN "Value is required for select action"
    ELSE ""

\* a check that forgets select
ValueErrorFillOnly(action, value) ==
    IF action = "fill" /\ Falsy(value) THEN "Value is required for fill action"
    ELSE ""

\* index.ts 170-172, 177-179: the message of the validation error, "" if none
ValueError(action, value) ==
    IF action = "fill" /\ Falsy(value) THEN "Value is required for fill action"
    ELSE IF action = "select" /\ Falsy(value) THEN "Value is required for select action"
    ELSE ""

\* index.ts 164-183: the provider operation each action calls
ActionOp(action) ==
    CASE action = "click" -> "click"
      [] action = "fill" -> "fill"
      [] action = "select" -> "selectOption"

\* index.ts 167, 174, 181: actionResult
ActionResult(action, selector, value) ==
    CASE action = "click" -> "Clicked on element: " \o selector
      [] action = "fill" -> "Filled element " \o selector \o " with value: " \o value
      [] action = "select" -> "Selected option " \o value \o " in element: " \o selector

\* index.ts 143-183: the ids are resolved, the value is checked, the action
\* is called; a throw is caught (203-212) and the failure payload returned
InteractStart(browserId, pageId, action, selector, value) ==
    /\ CanStart
    /\ started' = started + 1
    /\ LET args == [NoArgs EXCEPT !.browserId = browserId, !.pageId = pageId,
                                  !.action = action, !.selector = selector, !.value = value]
           c == [Call("interact", args) EXCEPT !.late = browserId \in closed]
           head == "Failed to interact with page: "
           notFound == ResolveError(browserId, pageId)
           noValue == ValueError(action, value)
       IN  IF notFound # ""
                THEN /\ Return(c, Failure(head, notFound,
                                      ResolveErrorId(browserId, pageId)), "resolve", 0)
                     /\ UNCHANGED calls
                ELSE IF noValue # ""
                THEN /\ Return(c, Failure(head, noValue, 0), "validate", 0)
                     /\ UNCHANGED calls
                ELSE /\ calls' = Spawn(Invoke([c EXCEPT
                            !.browserId = browserId, !.pageId = pageId,
                            !.browser = browserInstances[browserId].browser,
                            !.page = browserInstances[browserId].pages[pageId]],
                            ActionOp(action)))
                     /\ NoReturn
    /\ UNCHANGED <<browserInstances, browsers, uuids, returned, closed, now, files>>

\* index.ts 166-186: actionResult is set; page.waitForTimeout(1000) is called
InteractAfterAction(c) ==
    /\ \E op \in SelectorOps : Resumes(c, "interact", op)
    /\ LET a == c.args
       IN  calls' = Continue(c, Invoke([c EXCEPT !.actionResult =
                                            ActionResult(a.action, a.selector, a.value)],
                                       "waitForTimeout"))
    /\ NoReturn
    /\ UNCHANGED <<browserInstances, browsers, started, uuids, returned, closed, now, files>>

\* index.ts 186-190: the path is stamped with Date.now(); page.screenshot is called
InteractAfterWait(c) ==
    /\ Resumes(c, "interact", "waitForTimeout")
    /\ calls' = Continue(c, Invoke([c EXCEPT !.path =
                                        StampedScreenshotPath(c.pageId, now)],
                                    "screenshot"))
    /\ NoReturn
    /\ UNCHANGED <<browserInstances, browsers, started, uuids, returned, closed, now, files>>

\* index.ts 199: the text of interact's success payload
InteractText(c) ==
    [NoText EXCEPT !.head = "Successfully performed action.",
                   !.actionResult = c.actionResult,
                   !.url = "page.url()",
                   !.path = c.path]

\* index.ts 190-202: currentUrl = page.url(); the success payload is returned
InteractAfterScreenshot(c) ==
    /\ Resumes(c, "interact", "screenshot")
    /\ Return(c, InteractText(c), "", 0)
    /\ files' = Captured(c.path)
    /\ calls' = Retire(c)
    /\ UNCHANGED <<browserInstances, browsers, started, uuids, returned, closed, now>>

\* index.ts 203-212: the awaited operation threw; the failure payload is returned
InteractCatch(c) ==
    /\ Throws(c, "interact")
    /\ Return(c,
                 ProviderFailure("Failed to interact with page: ", c.pc),
                 c.pc, 0)
    /\ calls' = Retire(c)
    /\ UNCHANGED <<browserInstances, browsers, started, uuids, returned, closed, now, files>>

\* ----------------------------------------------------------------- extract
\* index.ts 246-269: the provider operation each type calls
ExtractOp(type) ==
    CASE type = "text" -> "evaluate"
      [] type = "html" -> "content"
      [] type = "screenshot" -> "screenshot"

\* index.ts 225-270: the ids are resolved and the operation of the type is
\* called; a throw is caught (282-291) and the failure payload returned
ExtractStart(browserId, pageId, type) ==
    /\ CanStart
    /\ started' = started + 1
    /\ LET args == [NoArgs EXCEPT !.browserId = browserId, !.pageId = pageId,
                                  !.type = type]
           c == [Call("extract", args) EXCEPT !.late = browserId \in closed]
           notFound == ResolveError(browserId, pageId)
       IN  IF notFound # ""
                THEN /\ Return(c, Failure("Failed to extract content: ",
                              notFound, ResolveErrorId(browserId, pageId)), "resolve", 0)
                     /\ UNCHANGED calls
                ELSE /\ calls' = Spawn(Invoke([c EXCEPT
                            !.browserId = browserId, !.pageId = pageId,
                            !.browser = browserInstances[browserId].browser,
                            !.page = browserInstances[browserId].pages[pageId],
                            !.path = IF type = "screenshot"
                                     THEN StampedScreenshotPath(pageId, now) ELSE <<>>],
                            ExtractOp(type)))
                     /\ NoReturn
    /\ UNCHANGED <<browserInstances, browsers, uuids, returned, closed, now, files>>

\* extract's payload cut at browse's limit
ExtractTextPreview(type, content, path) ==
    IF type = "text" \/ type = "screenshot"
    THEN [NoText EXCEPT !.body = Substring(content, 0, PreviewLimit),
                        !.marker = content > PreviewLimit,
                        !.path = path]
    ELSE [NoText EXCEPT !.head = "Extracted HTML content (",
                        !.count = content,
                        !.body = Substring(content, 0, HtmlLimit),
                        !.marker = TRUE]

\* extract's payload with the html excerpt cut at the limit of text
ExtractTextHtmlLong(type, content, path) ==
    IF type = "text" \/ type = "screenshot"
    THEN [NoText EXCEPT !.body = Substring(content, 0, ExtractLimit),
                        !.marker = content > ExtractLimit,
                        !.path = path]
    ELSE [NoText EXCEPT !.head = "Extracted HTML content (",
                        !.count = content,
                        !.body = Substring(content, 0, ExtractLimit),
                        !.marker = TRUE]

\* index.ts 276-278: the text of extract's success payload, for extractedContent
\* of length content
ExtractText(type, content, path) ==
    IF type = "text" \/ type = "screenshot"
    THEN [NoText EXCEPT !.body = Substring(content, 0, ExtractLimit),
                        !.marker = content > ExtractLimit,
                        !.path = path]
    ELSE [NoText EXCEPT !.head = "Extracted HTML content (",
                        !.count = content,
                        !.body = Substring(content, 0, HtmlLimit),
                        !.marker = TRUE]

\* index.ts 249-281: extractedContent = what the operation returned (for a
\* screenshot, `Screenshot saved to: ${screenshotPath}`); the success payload
\* is returned
ExtractAfterOp(c, content) ==
    /\ \E op \in {"evaluate", "content", "screenshot"} : Resumes(c, "extract", op)
    /\ LET extractedContent == IF c.args.type = "screenshot" THEN ScreenshotNoteLen
                           ELSE content
       IN  Return(c, ExtractText(c.args.type, extractedContent, c.path),
                  "", extractedContent)
    /\ files' = IF c.args.type = "screenshot" THEN Captured(c.path) ELSE files
    /\ calls' = Retire(c)
    /\ UNCHANGED <<browserInstances, browsers, started, uuids, returned, closed, now>>

\* index.ts 282-291: the awaited operation threw; the failure payload is returned
ExtractCatch(c) ==
    /\ Throws(c, "extract")
    /\ Return(c,
                 ProviderFailure("Failed to extract content: ", c.pc),
                 c.pc, 0)
    /\ calls' = Retire(c)
    /\ UNCHANGED <<browserInstances, browsers, started, uuids, returned, closed, now, files>>

\* ------------------------------------------------------------------- close
\* index.ts 302-311: the instance is resolved and instance.browser.close() is
\* called; a throw is caught (324-333) and the failure payload returned
CloseStart(browserId) ==
    /\ CanStart
    /\ started' = started + 1
    /\ LET args == [NoArgs EXCEPT !.browserId = browserId]
           c == [Call("close", args) EXCEPT !.late = browserId \in closed]
       IN  IF browserId \notin DOMAIN browserInstances
                THEN /\ Return(c, Failure("Failed to close browser: ",
                              "Browser instance not found: ", browserId), "resolve", 0)
                     /\ UNCHANGED <<calls, browsers>>
                ELSE LET browser == browserInstances[browserId].browser
                     IN  /\ calls' = Spawn(Invoke([c EXCEPT !.browserId = browserId,
                                                            !.browser = browser], "close"))
                         /\ browsers' = [browsers EXCEPT ![browser].closeCalls = @ + 1]
                         /\ NoReturn
    /\ UNCHANGED <<browserInstances, uuids, returned, closed, now, files>>

\* the provider completes the browser.close() that invocation c awaits: the
\* browser is released; the handler has not resumed yet
ProviderClose(c) ==
    /\ BagIn(c, calls)
    /\ c.pc = "close"
    /\ ~c.resolved
    /\ browsers' = [browsers EXCEPT ![c.browser].state = "released"]
    /\ calls' = Continue(c, [c EXCEPT !.resolved = TRUE])
    /\ NoReturn
    /\ UNCHANGED <<browserInstances, started, uuids, returned, closed, now, files>>

\* index.ts 311-323: the instance is deleted; the success payload is returned
CloseAfterClose(c) ==
    /\ Resumes(c, "close", "close")
    /\ c.resolved
    /\ browserInstances' = RegistryDelete(c.browserId)
    /\ Return(c, [NoText EXCEPT !.head = "Successfully closed browser: ",
                                         !.browserId = c.browserId], "", 0)
    /\ closed' = closed \cup {c.browserId}
    /\ calls' = Retire(c)
    /\ UNCHANGED <<browsers, started, uuids, returned, now, files>>

\* index.ts 324-333: browser.close() threw; the failure payload is returned
CloseCatch(c) ==
    /\ Throws(c, "close")
    /\ Return(c,
                 ProviderFailure("Failed to close browser: ", "close"), "close", 0)
    /\ calls' = Retire(c)
    /\ UNCHANGED <<browserInstances, browsers, started, uuids, returned, closed, now, files>>

\* a millisecond passes
Tick ==
    /\ now < MaxClock
    /\ now' = now + 1
    /\ NoReturn
    /\ UNCHANGED <<browserInstances, browsers, calls, started, uuids, returned, closed,
                   files>>

\* ------------------------------------------------------------ specification
Suspended == BagToSet(calls)

Next ==
    \/ \E url \in Urls, headless \in Headless, waitFor \in WaitFors :
            BrowseStart(url, headless, waitFor)
    \/ \E c \in Suspended : BrowseAfterLaunch(c)
    \/ \E c \in Suspended : BrowseAfterNewContext(c)
    \/ \E c \in Suspended : BrowseAfterNewPage(c)
    \/ \E c \in Suspended : BrowseAfterGoto(c)
    \/ \E c \in Suspended : BrowseAfterWait(c)
    \/ \E c \in Suspended : BrowseAfterTitle(c)
    \/ \E c \in Suspended, visibleText \in TextLens : BrowseAfterEvaluate(c, visibleText)
    \/ \E c \in Suspended : BrowseAfterScreenshot(c)
    \/ \E c \in Suspended : BrowseCatch(c)
    \/ \E browserId \in KnownBrowserIds, pageId \in KnownPageIds, action \in Actions,
           selector \in Selectors, value \in Values :
            InteractStart(browserId, pageId, action, selector, value)
    \/ \E c \in Suspended : InteractAfterAction(c)
    \/ \E c \in Suspended : InteractAfterWait(c)
    \/ \E c \in Suspended : InteractAfterScreenshot(c)
    \/ \E c \in Suspended : InteractCatch(c)
    \/ \E browserId \in KnownBrowserIds, pageId \in KnownPageIds, type \in ExtractTypes :
            ExtractStart(browserId, pageId, type)
    \/ \E c \in Suspended, content \in TextLens \cup HtmlLens : ExtractAfterOp(c, content)
    \/ \E c \in Suspended : ExtractCatch(c)
    \/ \E browserId \in KnownBrowserIds : CloseStart(browserId)
    \/ \E c \in Suspended : ProviderClose(c)
    \/ \E c \in Suspended : CloseAfterClose(c)
    \/ \E c \in Suspended : CloseCatch(c)
    \/ Tick

Spec == Init /\ [][Next]_vars

\* a step of a suspended invocation: the provider completes the operation it
\* awaits, or the operation throws, and the handler runs on
Resume ==
    \E c \in Suspended :
        \/ BrowseAfterLaunch(c) \/ BrowseAfterNewContext(c) \/ BrowseAfterNewPage(c)
        \/ BrowseAfterGoto(c) \/ BrowseAfterWait(c) \/ BrowseAfterTitle(c)
        \/ \E visibleText \in TextLens : BrowseAfterEvaluate(c, visibleText)
        \/ BrowseAfterScreenshot(c) \/ BrowseCatch(c)
        \/ InteractAfterAction(c) \/ InteractAfterWait(c) \/ InteractAfterScreenshot(c)
        \/ InteractCatch(c)
        \/ \E content \in TextLens \cup HtmlLens : ExtractAfterOp(c, content)
        \/ ExtractCatch(c)
        \/ ProviderClose(c) \/ CloseAfterClose(c) \/ CloseCatch(c)

\* every provider operation eventually completes or throws, and the event
\* loop then runs the handler that awaits it
FairSpec == Spec /\ WF_vars(Resume)

\* ================================================================== claims
\* the tools and the fixed beginning of each one's failure text
FailureMarker == "Failed to"
FailureHeads ==
    {FailureMarker \o rest : rest \in {" browse: ", " interact with page: ",
                                        " extract content: ", " close browser: "}}
IsFailure(r) == r.text.head \in FailureHeads
NotFound(r) ==
    /\ IsFailure(r)
    /\ r.text.error \in {ErrorText("Browser instance not found: "),
                          ErrorText("Page not found: ")}
InstanceNotFound(r) ==
    /\ IsFailure(r)
    /\ r.text.error = ErrorText("Browser instance not found: ")
    /\ r.text.errorId = r.args.browserId
PageNotFound(r) ==
    /\ IsFailure(r)
    /\ r.text.error = ErrorText("Page not found: ")
    /\ r.text.errorId = r.args.pageId
BrowseSucceeded == out.kind = "browse" /\ out.at = ""

\* the ids of the k-th successful browse
IdsOf(k) == {returned[k][1], returned[k][2]}

\* C1: every successful browse returns a browserId and a pageId that no
\* earlier browse returned, and in the state it returns in (the state an
\* interact or extract issued next starts from) both ids resolve.
C1_FreshResolvableIds ==
    /\ \A i, j \in DOMAIN returned : i # j => IdsOf(i) \cap IdsOf(j) = {}
    /\ BrowseSucceeded =>
          /\ <<out.text.browserId, out.text.pageId>> = returned[Len(returned)]
          /\ ResolveError(out.text.browserId, out.text.pageId) = ""

\* C1 witness: a second browse has just succeeded.
C1_Witness == BrowseSucceeded /\ Len(returned) = 2

\* C2: an interact, extract or close that begins after a successful close
\* response named its browserId returns at once (it is never suspended, so
\* it throws nothing later) and its response is the instance-not-found failure.
C2_ClosedIdNotFound ==
    /\ \A c \in BagToSet(calls) : ~c.late
    /\ out.late => InstanceNotFound(out)

\* C2 witness: a second close of an id already closed has just returned.
C2_Witness == out.late /\ out.kind = "close"

\* whether browser h is the browser of a registered instance
Registered(h) == \E b \in DOMAIN browserInstances : browserInstances[b].browser = h

C4_ReleasedOnce == \A h \in DOMAIN browsers : browsers[h].closeCalls <= 1

\* C5: every invocation that has begun is suspended or has returned a
\* response, and the response of an invocation in which any step threw
\* begins with the failure marker.
C5_EveryThrowIsAFailureResponse ==
    /\ started = finished + BagCardinality(calls)
    /\ out.at # "" => IsFailure(out)

\* C5 witness: an extract whose provider operation threw has just returned.
C5_Witness == out.kind = "extract" /\ out.at \in {"evaluate", "content", "screenshot"}

\* C6: a close that succeeds returns with the browser released, and a close
\* whose browser.close() threw returns with its instance still registered.
C6_RemovedOnlyAfterRelease ==
    /\ (out.kind = "close" /\ out.at = "") => browsers[out.browser].state = "released"
    /\ (out.kind = "close" /\ out.at = "close") =>
          out.args.browserId \in DOMAIN browserInstances

\* the operations browse awaits after the launch
AfterLaunchOps ==
    {"newContext", "newPage", "goto", "waitForTimeout", "title", "evaluate", "screenshot"}

\* C7: a browse that fails in any operation after the launch returns with
\* its instance, holding its one page, in the registry.
C7_FailedBrowseIsRegistered ==
    (out.kind = "browse" /\ out.at \in AfterLaunchOps) =>
        /\ out.browserId \in DOMAIN browserInstances
        /\ DOMAIN browserInstances[out.browserId].pages = {out.pageId}

\* an interact call with action fill and no value
FillNoValue(r) ==
    r.kind = "interact" /\ r.args.action = "fill" /\ r.args.value = Undefined

\* C8 as stated: whatever the registry and the selector, interact with fill
\* and no value returns the value-required failure.
C8_FillWithoutValueIsValueRequired ==
    FillNoValue(out) =>
        /\ IsFailure(out)
        /\ out.text.error = ErrorText("Value is required for fill action")

\* C8 as amended: interact with fill and no value never reaches the provider
\* and always returns a failure: the value-required failure when browserId
\* and pageId resolve, the not-found failure of the lookup when they do not.
C8_FillWithoutValueFails ==
    /\ \A c \in BagToSet(calls) : ~FillNoValue(c)
    /\ FillNoValue(out) =>
          LET b == out.args.browserId
              p == out.args.pageId
          IN  /\ IsFailure(out)
              /\ IF b \in DOMAIN browserInstances
                     /\ p \in DOMAIN browserInstances[b].pages
                  THEN out.text.error = ErrorText("Value is required for fill action")
                  ELSE NotFound(out)

\* C8 witness: fill with no value on a resolved page, with a selector that
\* matches nothing, has just returned the value-required failure.
C8_Witness ==
    /\ FillNoValue(out)
    /\ out.args.selector = "#gone"
    /\ out.text.error = ErrorText("Value is required for fill action")

\* the (browserId, pageId) pairs successful browse calls returned
ReturnedPairs == {returned[k] : k \in DOMAIN returned}

\* C9: no pageId is a key of two instances' page maps; an interact or
\* extract whose lookup throws reports instance-not-found when browserId is
\* not registered and page-not-found when it is but pageId is not among its
\* pages; and only a browserId with its own pageId gets past the lookup.
C9_PageResolvesUnderOwner ==
    /\ \A b1, b2 \in DOMAIN browserInstances :
          b1 # b2 => DOMAIN browserInstances[b1].pages
                        \cap DOMAIN browserInstances[b2].pages = {}
    /\ \A c \in BagToSet(calls) :
          c.kind \in {"interact", "extract"} =>
              /\ <<c.args.browserId, c.args.pageId>> \in ReturnedPairs
              /\ c.page = c.browser
    /\ out.kind \in {"interact", "extract"} =>
          LET b == out.args.browserId
              p == out.args.pageId
          IN  IF out.at = "resolve"
              THEN IF b \notin DOMAIN browserInstances
                   THEN InstanceNotFound(out)
                   ELSE /\ p \notin DOMAIN browserInstances[b].pages
                        /\ PageNotFound(out)
              ELSE <<b, p>> \in ReturnedPairs

\* C9 witness: an interact naming a registered instance and the page of
\* another registered instance has just returned page-not-found.
C9_Witness ==
    /\ out.kind = "interact"
    /\ PageNotFound(out)
    /\ \E b \in DOMAIN browserInstances :
          b # out.args.browserId /\ out.args.pageId \in DOMAIN browserInstances[b].pages

\* the payload r holds the first bound characters of its content, and the
\* marker exactly when the content is longer
Truncated(r, bound) ==
    /\ r.text.body = Min(r.src, bound)
    /\ r.text.marker <=> r.src > bound
    /\ r.src <= bound => r.text.body = r.src /\ ~r.text.marker

\* C10: browse cuts its text at 1500 characters and extract (type text) at
\* 2000, with the marker exactly when the text is longer.
C10_TruncatedAtBound ==
    /\ BrowseSucceeded => Truncated(out, 1500)
    /\ (out.kind = "extract" /\ out.at = "" /\ out.args.type = "text") =>
          Truncated(out, 2000)

\* C10 witness: an extract of a text of 2001 characters has just returned
\* 2000 of them and the marker.
C10_Witness ==
    /\ out.kind = "extract" /\ out.at = "" /\ out.args.type = "text"
    /\ out.src = 2001 /\ out.text.body = 2000 /\ out.text.marker

\* C11: extract with type html returns the full character count of the
\* document and, as content, its first 100 characters at most (all of it
\* when it is shorter), whatever the length of the document.
C11_HtmlExcerptAtMost100 ==
    (out.kind = "extract" /\ out.at = "" /\ out.args.type = "html") =>
        /\ out.text.count = out.src
        /\ out.text.body = Min(out.src, 100)
        /\ out.text.body <= 100

\* C11 witness: an extract of a 1 MB document has just returned its count
\* and 100 characters.
C11_Witness ==
    /\ out.kind = "extract" /\ out.at = "" /\ out.args.type = "html"
    /\ out.src = 1048576 /\ out.text.count = 1048576 /\ out.text.body = 100

\* C12: no interact or extract invocation awaits a provider operation that
\* it called on its page after the browser of the page had been released.
C12_NoOperationAfterRelease ==
    \A c \in BagToSet(calls) : c.kind \in {"interact", "extract"} => ~c.afterRelease

\* a step that adds exactly one entry to the registry, the instance of a
\* suspended browse / that removes exactly the entry a successful close named
AddsOne ==
    \E c \in BagToSet(calls') :
        /\ c.kind = "browse"
        /\ c.browserId \notin DOMAIN browserInstances
        /\ DOMAIN browserInstances' = DOMAIN browserInstances \cup {c.browserId}
        /\ \A b \in DOMAIN browserInstances : browserInstances'[b] = browserInstances[b]
RemovesNamed ==
    /\ out'.kind = "close" /\ out'.at = ""
    /\ out'.args.browserId \in DOMAIN browserInstances
    /\ DOMAIN browserInstances' = DOMAIN browserInstances \ {out'.args.browserId}
    /\ \A b \in DOMAIN browserInstances' : browserInstances'[b] = browserInstances[b]

\* each registered instance has one page, a page of its own browser
OnePageEach ==
    \A b \in DOMAIN browserInstances :
        /\ Cardinality(DOMAIN browserInstances[b].pages) = 1
        /\ \A p \in DOMAIN browserInstances[b].pages :
              browserInstances[b].pages[p] = browserInstances[b].browser

\* C13: a step changes the registry only by adding the one instance of a
\* browse or by removing the instance a close named; a step in which an
\* interact, an extract or a close with an unknown id runs or returns leaves
\* it unchanged; and every registered instance has exactly one page.
C13_RegistryFrame ==
    /\ []OnePageEach
    /\ [][/\ browserInstances' # browserInstances => AddsOne \/ RemovesNamed
          /\ (\/ out'.kind \in {"interact", "extract"}
              \/ out'.kind = "close" /\ out'.at = "resolve"
              \/ \E c \in BagToSet(calls') : c.kind \in {"interact", "extract"}
                                              /\ ~BagIn(c, calls))
                => browserInstances' = browserInstances]_vars

\* C13 witness: with two instances registered, a close with an unknown id
\* has just failed.
C13_Witness ==
    /\ out.kind = "close" /\ out.at = "resolve"
    /\ Cardinality(DOMAIN browserInstances) = 2

\* an interact call with action fill or select and no value
NoValue(r) ==
    r.kind = "interact" /\ r.args.action \in {"fill", "select"} /\ Falsy(r.args.value)

\* C14: an invocation that fails the lookup or the value check has called no
\* provider operation, and an interact with fill or select and no value is
\* never suspended at one; every suspended invocation has called one.
C14_NoProviderCallBeforeFailure ==
    /\ out.at \in {"resolve", "validate"} => out.invoked = 0
    /\ NoValue(out) => out.invoked = 0 /\ out.at \in {"resolve", "validate"}
    /\ \A c \in BagToSet(calls) : c.invoked >= 1 /\ ~NoValue(c)

\* C14 witness: a select with no value on a resolved page has just failed
\* the value check.
C14_Witness ==
    /\ NoValue(out) /\ out.args.action = "select"
    /\ out.at = "validate"
    /\ out.text.error = ErrorText("Value is required for select action")

\* C15: a browse that returns with its instance in the registry returns a
\* payload that holds the browserId and the pageId of the instance.
C15_RegisteredBrowseNamesIds ==
    (out.kind = "browse" /\ out.browserId \in DOMAIN browserInstances) =>
        /\ out.text.browserId = out.browserId
        /\ out.text.pageId = out.pageId

\* C16: every invocation that has begun is suspended or has returned exactly
\* one response; every suspended invocation has a step to take whatever the
\* other invocations and the registry are; and the n-th invocation to begin
\* is followed by the n-th response.
C16_EveryInvocationReturns ==
    /\ [](started = finished + BagCardinality(calls))
    /\ [](\A c \in BagToSet(calls) : ~c.resolved \/ c.canResolve)
    /\ \A n \in 1..MaxCalls : (started >= n) ~> (finished >= n)

\* C16 witness: every invocation of the run has returned, the last one a
\* close that succeeded.
C16_Witness ==
    /\ finished = MaxCalls
    /\ calls = EmptyBag
    /\ out.kind = "close" /\ out.at = ""

\* C17: no path has had two captures written to it.
C17_OneCapturePerPath == \A path \in BagToSet(files) : CopiesIn(path, files) = 1

====
